---------------------------- MODULE Spec2Model ----------------------------
(***************************************************************************)
(* State-machine model of telegramnewsjob.py: DiscoveryEngine.discover     *)
(* (the fetchers and the error tracker, deduplication and backup           *)
(* fallback), SignalEngine.enrich, main() (daily cache, selection, early   *)
(* cache save) and DeliveryEngine (send_post retries, run, failure log).   *)
(*                                                                         *)
(* Strings are TLA+ strings; s \o t is Python's s + t.  Where the program  *)
(* looks inside a str (enrich), the str is a sequence of one-character     *)
(* strings.  hashlib.md5 is taken to be collision free, so a fingerprint   *)
(* is represented by the text it digests.  Dates are day numbers.  Waits   *)
(* are whole seconds.                                                      *)
(***************************************************************************)
EXTENDS Integers, Sequences, FiniteSets, TLC

VARIABLES
    clock,          \* the UTC date datetime.now(timezone.utc).date() would return
    run,            \* number of invocations of main() started so far
    pc,             \* position of the running invocation
    cacheFile,      \* content of cache.json
    failedFile,     \* content of failed_posts.json
    today_key,      \* main: today_key
    posted_titles,  \* main: posted_titles
    cache,          \* main: cache (the in-memory dict)
    pool,           \* discover: pool, as merged from the fetchers
    deduped,        \* discover: deduped when the deduplication loop ends
    seen_hashes,    \* discover: seen_hashes when the deduplication loop ends
    raw_items,      \* main: raw_items, the list discover() returned
    new_items,      \* main: new_items
    selected,       \* main: selected
    messages,       \* main: messages, the batch handed to DeliveryEngine.run
    idx,            \* run: position of msg in messages
    attempts,       \* send_post: attempts
    delay,          \* send_post: delay
    waits,          \* send_post: the backoff sleeps taken for the current message
    tries,          \* number of send_message calls made for each message
    status,         \* PENDING / SENDING / SENT / FAILED of each message
    failed,         \* run: failed
    existing,       \* run: existing, as read from failed_posts.json
    flushes,        \* number of writes of failed_posts.json by this invocation
    budget,         \* transport errors the environment may still raise
    hist,           \* history: the cache writes completed so far
    lost,           \* history: the titles whose message ended FAILED
    web,            \* how each source answers the fetchers of discover()
    error_tracker,  \* the module's ErrorTracker: errors and successes
    item,           \* enrich: item
    enriched,       \* enrich: the dict returned
    quoted          \* the calls of the quote service made by enrich()

vars == <<clock, run, pc, cacheFile, failedFile, today_key, posted_titles,
          cache, pool, deduped, seen_hashes, raw_items, new_items, selected,
          messages, idx, attempts, delay, waits, tries, status, failed,
          existing, flushes, budget, hist, lost, web, error_tracker, item,
          enriched, quoted>>

---------------------------------------------------------------------------
(* Bounds of the model. *)

MaxPool == 5          \* longest merged pool drawn for discover()
MaxRuns == 2          \* invocations of main() in one behaviour
MaxDay == 2           \* last UTC date the clock reaches
MaxBatch == 3         \* longest batch drawn for DeliveryEngine.run alone
MainErrors == 3       \* transport errors raised over one behaviour of main()
MaxBulk == 52         \* most distinct stories in a merged pool

(* Program constants. *)

POSTS_PER_DAY == 20
MinDeduped == 5       \* discover: "if len(deduped) < 5"
BackupTarget == 10    \* discover: "if len(deduped) >= 10"
MaxPoolSize == 50     \* discover: "return deduped[:50]"
MaxAttempts == 3      \* send_post: "while attempts < 3"
BaseDelay == 5        \* send_post: "attempts, delay = 0, 5"
MaxJitter == 3        \* send_post: "random.uniform(0, 3)"

(* cache.json before any invocation has written it. *)
NoCacheFile == [exists |-> FALSE, date |-> 0, titles |-> <<>>]

---------------------------------------------------------------------------
(* BACKUP_HEADLINES, in list order. *)

BACKUP_HEADLINES ==
  << [title |-> "OpenAI Quietly Builds Next-Gen AI Infrastructure to Challenge Google",
      url |-> "https://techcrunch.com/ai", company |-> "OpenAI"],
     [title |-> "India's IT Giants Eye $50B AI Market Amid Global Tech Shifts",
      url |-> "https://economictimes.com/tech", company |-> "Infosys"],
     [title |-> "China's Baidu Turbo-Charges Dragon AI to Compete with ChatGPT",
      url |-> "https://technode.com/ai", company |-> "Baidu"],
     [title |-> "Meta Silently Fires 2,000 Engineers While Doubling AI Investment",
      url |-> "https://theverge.com/meta", company |-> "Meta"],
     [title |-> "Microsoft Replaces Human Customer Service with GPT-Powered Bots",
      url |-> "https://venturebeat.com/ai", company |-> "Microsoft"],
     [title |-> "Nvidia Explodes Past $2 Trillion Valuation on AI Chip Demand",
      url |-> "https://wired.com/nvidia", company |-> "Nvidia"],
     [title |-> "TCS Shuts Down Legacy Systems, Goes All-In on AI Automation",
      url |-> "https://inc42.com/tcs", company |-> "TCS"],
     [title |-> "Tesla's FSD AI Quietly Replaces Human Drivers in Beta Cities",
      url |-> "https://futurism.com/tesla", company |-> "Tesla"] >>

(* A candidate as the fetchers build it: {"title": ..., "url": ...}. *)
Candidate(t, u) == [title |-> t, url |-> u]

(* hashlib.md5((itm["title"] + itm["url"]).encode()).hexdigest() *)
Fingerprint(itm) == itm.title \o itm.url

---------------------------------------------------------------------------
(* The deduplication loop with deduped.append(itm) placed before the       *)
(* duplicate test: every entry of the pool is kept.                        *)
DedupLoopAppendFirst(p, i, seen_title, seen_url, hashes, out) ==
    [deduped |-> p,
     seen_hashes |-> {Fingerprint(p[k]) : k \in 1..Len(p)}]

(* discover(), the deduplication loop. *)

RECURSIVE DedupLoop(_, _, _, _, _, _)
DedupLoop(p, i, seen_title, seen_url, hashes, out) ==
    IF i > Len(p)
    THEN [deduped |-> out, seen_hashes |-> hashes]
    ELSE LET itm == p[i]
             content_hash == Fingerprint(itm)
         IN  IF \/ itm.title \in seen_title
                \/ itm.url \in seen_url
                \/ content_hash \in hashes
             THEN DedupLoop(p, i + 1, seen_title, seen_url, hashes, out)
             ELSE DedupLoop(p, i + 1,
                            seen_title \cup {itm.title},
                            seen_url \cup {itm.url},
                            hashes \cup {content_hash},
                            Append(out, itm))

(* discover(), the backup fallback loop over BACKUP_HEADLINES. *)

RECURSIVE BackupLoop(_, _, _)
BackupLoop(j, out, hashes) ==
    IF j > Len(BACKUP_HEADLINES)
    THEN out
    ELSE LET backup == BACKUP_HEADLINES[j]
             backup_hash == Fingerprint(backup)
             fresh == backup_hash \notin hashes
             out2 == IF fresh THEN Append(out, backup) ELSE out
             hashes2 == IF fresh THEN hashes \cup {backup_hash} ELSE hashes
         IN  IF Len(out2) >= BackupTarget
             THEN out2
             ELSE BackupLoop(j + 1, out2, hashes2)

(* Python's s[:n] for a list. *)
Take(s, n) == SubSeq(s, 1, IF Len(s) < n THEN Len(s) ELSE n)

(* The fallback with "if len(deduped) <= 5". *)
FallbackAtMost(d, hashes) ==
    Take(IF Len(d) <= MinDeduped THEN BackupLoop(1, d, hashes) ELSE d,
         MaxPoolSize)

(* The fallback with "return deduped" for the last line. *)
FallbackUncut(d, hashes) ==
    IF Len(d) < MinDeduped THEN BackupLoop(1, d, hashes) ELSE d

(* discover(), from "if len(deduped) < 5" to "return deduped[:50]". *)
Fallback(d, hashes) ==
    Take(IF Len(d) < MinDeduped THEN BackupLoop(1, d, hashes) ELSE d,
         MaxPoolSize)

---------------------------------------------------------------------------
(* The candidates the fetchers return in this model.  K1 and K2 differ in  *)
(* title and in URL and have the same title + url text.  K3 has K1's title *)
(* and K7's URL.  K4 has the title of a backup headline, K5 the URL of     *)
(* one, and K6 is the title and URL of one.                                *)

K1 == Candidate("a", "bc")
K2 == Candidate("ab", "c")
K3 == Candidate("a", "u7")
K4 == Candidate(BACKUP_HEADLINES[1].title, "u4")
K5 == Candidate("t5", BACKUP_HEADLINES[2].url)
K6 == Candidate(BACKUP_HEADLINES[3].title, BACKUP_HEADLINES[3].url)
K7 == Candidate("t7", "u7")

LiveCandidates == {K1, K2, K3, K4, K5, K6, K7}

(* All sequences over S of length at most n. *)
SeqsUpTo(S, n) == UNION {[1..k -> S] : k \in 0..n}

(* The merged pools discover() is checked on. *)
Pools == SeqsUpTo(LiveCandidates, MaxPool)

(* The n-th of the stories of a busy day, all with different titles, URLs  *)
(* and fingerprints.                                                       *)
Story(n) == Candidate("s" \o ToString(n), "w" \o ToString(n))

(* The first n stories, in order. *)
Bulk(n) == [k \in 1..n |-> Story(k)]

(* The large merged pools: the longest runs of distinct stories, alone and *)
(* followed by a second copy of the first two.                             *)
BulkPools ==
    { Bulk(n) \o d : n \in (MaxBulk - 4)..MaxBulk, d \in {<<>>, Bulk(2)} }

(* The merged pools an invocation of main() meets. *)
MainPools == { <<K4>>, <<K1, K4, K5, K6, K7>> }

---------------------------------------------------------------------------
(* main(): enrich and build_post.  The card is represented by the title    *)
(* its headline is derived from and by the URL of its source line.         *)
BuildPost(itm) == [card |-> itm.title, source |-> itm.url]

(* The titles of a list of items, in order. *)
TitlesOf(items) == [i \in 1..Len(items) |-> items[i].title]

Range(s) == {s[i] : i \in 1..Len(s)}

(* The ErrorTracker after __init__. *)
NoReport == [errors |-> <<>>, successes |-> <<>>]

(* No item given to enrich(), nothing returned by it. *)
NoItem == [title |-> <<>>, url |-> ""]

NoEnriched == [company |-> <<>>, country |-> "", emoji |-> "",
               headline |-> <<>>, stock |-> "", tag |-> "", url |-> ""]

(* The fetchers and enrich() as they are where they are not followed step  *)
(* by step: the invocations of main() take the merged pool as a whole and  *)
(* build the card from the item.                                           *)
OtherStagesIdle ==
    /\ web = <<>>
    /\ error_tracker = NoReport
    /\ item = NoItem
    /\ enriched = NoEnriched
    /\ quoted = <<>>

(* The locals of one invocation before it has assigned them. *)
FreshLocals ==
    /\ pool = <<>>
    /\ deduped = <<>>
    /\ seen_hashes = {}
    /\ raw_items = <<>>
    /\ new_items = <<>>
    /\ selected = <<>>
    /\ messages = <<>>
    /\ idx = 0
    /\ attempts = 0
    /\ delay = 0
    /\ waits = <<>>
    /\ tries = <<>>
    /\ status = <<>>
    /\ failed = <<>>
    /\ existing = <<>>
    /\ flushes = 0

NoFailedFile == [kind |-> "absent", entries |-> <<>>]

(* The state before the first invocation: no cache.json, no               *)
(* failed_posts.json.                                                      *)
Init ==
    /\ clock = 1
    /\ run = 0
    /\ pc = "idle"
    /\ cacheFile = NoCacheFile
    /\ failedFile = NoFailedFile
    /\ today_key = 0
    /\ posted_titles = {}
    /\ cache = [date |-> 0, titles |-> <<>>]
    /\ FreshLocals
    /\ budget = MainErrors
    /\ hist = <<>>
    /\ lost = {}
    /\ OtherStagesIdle

Resting == pc \in {"idle", "done", "interrupted", "crashed"}

(* The UTC date changes.  main() reads the clock once, when it starts.     *)
Tick ==
    /\ Resting
    /\ clock < MaxDay
    /\ clock' = clock + 1
    /\ UNCHANGED <<run, pc, cacheFile, failedFile, today_key, posted_titles,
                   cache, pool, deduped, seen_hashes, raw_items, new_items,
                   selected, messages, idx, attempts, delay, waits, tries,
                   status, failed, existing, flushes, budget, hist, lost>>
    /\ UNCHANGED <<web, error_tracker, item, enriched, quoted>>

(* posted_titles when the date of the cache is not compared. *)
PostedAfterLoadAnyDate(file, today) ==
    IF file.exists THEN Range(file.titles) ELSE {}

(* main(): posted_titles after the cache is loaded. *)
PostedAfterLoad(file, today) ==
    IF file.exists /\ file.date = today THEN Range(file.titles) ELSE {}

(* The cache started empty whatever cache.json holds. *)
CacheAfterLoadFresh(file, today) == [date |-> today, titles |-> <<>>]

(* main(): cache after the cache is loaded. *)
CacheAfterLoad(file, today) ==
    IF file.exists /\ file.date = today
    THEN [date |-> file.date, titles |-> file.titles]
    ELSE [date |-> today, titles |-> <<>>]

(* main(): load the cache and compare its date with today's. *)
LoadCache ==
    /\ Resting
    /\ run < MaxRuns
    /\ run' = run + 1
    /\ today_key' = clock
    /\ posted_titles' = PostedAfterLoad(cacheFile, clock)
    /\ cache' = CacheAfterLoad(cacheFile, clock)
    /\ pc' = "fetch"
    /\ pool' = <<>>
    /\ deduped' = <<>>
    /\ seen_hashes' = {}
    /\ raw_items' = <<>>
    /\ new_items' = <<>>
    /\ selected' = <<>>
    /\ messages' = <<>>
    /\ idx' = 0
    /\ attempts' = 0
    /\ delay' = 0
    /\ waits' = <<>>
    /\ tries' = <<>>
    /\ status' = <<>>
    /\ failed' = <<>>
    /\ existing' = <<>>
    /\ flushes' = 0
    /\ UNCHANGED <<clock, cacheFile, failedFile, budget, hist, lost>>
    /\ UNCHANGED <<web, error_tracker, item, enriched, quoted>>

(* discover(): the fetchers fill the pool. *)
Fetch ==
    /\ pc = "fetch"
    /\ \E p \in MainPools : pool' = p
    /\ pc' = "dedup"
    /\ UNCHANGED <<clock, run, cacheFile, failedFile, today_key, posted_titles,
                   cache, deduped, seen_hashes, raw_items, new_items, selected,
                   messages, idx, attempts, delay, waits, tries, status,
                   failed, existing, flushes, budget, hist, lost>>
    /\ UNCHANGED <<web, error_tracker, item, enriched, quoted>>

(* discover(): deduplicate by title, URL and fingerprint. *)
Deduplicate ==
    /\ pc = "dedup"
    /\ LET r == DedupLoop(pool, 1, {}, {}, {}, <<>>)
       IN  /\ deduped' = r.deduped
           /\ seen_hashes' = r.seen_hashes
    /\ pc' = "fallback"
    /\ UNCHANGED <<clock, run, cacheFile, failedFile, today_key, posted_titles,
                   cache, pool, raw_items, new_items, selected, messages, idx,
                   attempts, delay, waits, tries, status, failed, existing, flushes,
                   budget, hist, lost>>
    /\ UNCHANGED <<web, error_tracker, item, enriched, quoted>>

(* discover(): backup fallback, truncation, return to main(). *)
ReturnItems ==
    /\ pc = "fallback"
    /\ raw_items' = Fallback(deduped, seen_hashes)
    /\ pc' = "discovered"
    /\ UNCHANGED <<clock, run, cacheFile, failedFile, today_key, posted_titles,
                   cache, pool, deduped, seen_hashes, new_items, selected,
                   messages, idx, attempts, delay, waits, tries, status,
                   failed, existing, flushes, budget, hist, lost>>
    /\ UNCHANGED <<web, error_tracker, item, enriched, quoted>>

(* discover() alone, on every pool of Pools and of BulkPools. *)
InitDiscover ==
    /\ clock = 1
    /\ run = 1
    /\ pc = "dedup"
    /\ cacheFile = NoCacheFile
    /\ failedFile = NoFailedFile
    /\ today_key = 1
    /\ posted_titles = {}
    /\ cache = [date |-> 1, titles |-> <<>>]
    /\ pool \in Pools \cup BulkPools
    /\ deduped = <<>>
    /\ seen_hashes = {}
    /\ raw_items = <<>>
    /\ new_items = <<>>
    /\ selected = <<>>
    /\ messages = <<>>
    /\ idx = 0
    /\ attempts = 0
    /\ delay = 0
    /\ waits = <<>>
    /\ tries = <<>>
    /\ status = <<>>
    /\ failed = <<>>
    /\ existing = <<>>
    /\ flushes = 0
    /\ budget = 0
    /\ hist = <<>>
    /\ lost = {}
    /\ OtherStagesIdle

NextDiscover == Deduplicate \/ ReturnItems

SpecDiscover == InitDiscover /\ [][NextDiscover]_vars

---------------------------------------------------------------------------
(* discover(), the fetchers, one source of each kind: a site of            *)
(* TECH_SITES, a URL of the generic scrapes, a query of google_news(),     *)
(* hackernews(), a feed of rss_urls and a subreddit of reddit_scrape().    *)

Sources == {"site", "generic", "google_news", "hackernews", "rss", "reddit"}

EntriesPerSource == 3   \* entries each source lists
FaultyEntry == 2        \* the entry whose extraction raises

(* The k-th entry source s lists. *)
Entry(s, k) == Candidate(s \o " " \o ToString(k), s \o "/" \o ToString(k))

Entries(s) == [k \in 1..EntriesPerSource |-> Entry(s, k)]

(* How a source answers: "none", no exception; "open", the request or the  *)
(* parse of the page or feed raises, before any entry is read; "entry",    *)
(* reading entry FaultyEntry raises.                                       *)
Faults == {"none", "open", "entry"}

Webs == [Sources -> Faults]

(* d[k] = v, as Python's dict assignment. *)
Put(d, k, v) == [x \in DOMAIN d \cup {k} |-> IF x = k THEN v ELSE d[x]]

(* ErrorTracker.log_error; the messages are represented by their number. *)
log_error(t, source) ==
    [t EXCEPT !.errors =
        Put(@, source, (IF source \in DOMAIN @ THEN @[source] ELSE 0) + 1)]

(* ErrorTracker.log_success. *)
log_success(t, source, count) ==
    [t EXCEPT !.successes = Put(@, source, count)]

(* The entries read before the faulty one. *)
BeforeFault(es) == SubSeq(es, 1, FaultyEntry - 1)

(* The entries but the faulty one. *)
WithoutFault(es) ==
    SubSeq(es, 1, FaultyEntry - 1) \o SubSeq(es, FaultyEntry + 1, Len(es))

(* google_news(), reddit_scrape(): the loop over the entries appends to    *)
(* items itself, so what was appended before the exception stays.          *)
KeptOnFault(es) == BeforeFault(es)

(* _extract_from_site(): a failed request is logged and yields nothing; a  *)
(* failed article is logged inside the loop and skipped.                   *)
FetchSite ==
    /\ pc = "sites"
    /\ LET es == Entries("site")
       IN  CASE web["site"] = "none" ->
                   /\ pool' = pool \o es
                   /\ error_tracker' =
                          log_success(error_tracker, "site", Len(es))
             [] web["site"] = "open" ->
                   /\ pool' = pool
                   /\ error_tracker' = log_error(error_tracker, "site")
             [] web["site"] = "entry" ->
                   /\ pool' = pool \o WithoutFault(es)
                   /\ error_tracker' =
                          log_success(log_error(error_tracker, "site"),
                                      "site", Len(WithoutFault(es)))
    /\ pc' = "generic"
    /\ UNCHANGED <<clock, run, cacheFile, failedFile, today_key, posted_titles,
                   cache, deduped, seen_hashes, raw_items, new_items, selected,
                   messages, idx, attempts, delay, waits, tries, status,
                   failed, existing, flushes, budget, hist, lost>>
    /\ UNCHANGED <<web, item, enriched, quoted>>

(* _scrape_generic_tech_news(): site_items is extended into items only     *)
(* when the URL was scraped without an exception.                          *)
FetchGeneric ==
    /\ pc = "generic"
    /\ LET es == Entries("generic")
       IN  IF web["generic"] = "none"
           THEN /\ pool' = pool \o es
                /\ error_tracker' =
                       log_success(error_tracker, "Generic generic", Len(es))
           ELSE /\ pool' = pool
                /\ error_tracker' =
                       log_error(error_tracker, "Generic generic")
    /\ pc' = "google_news"
    /\ UNCHANGED <<clock, run, cacheFile, failedFile, today_key, posted_titles,
                   cache, deduped, seen_hashes, raw_items, new_items, selected,
                   messages, idx, attempts, delay, waits, tries, status,
                   failed, existing, flushes, budget, hist, lost>>
    /\ UNCHANGED <<web, item, enriched, quoted>>

(* google_news(): one query. *)
FetchGoogleNews ==
    /\ pc = "google_news"
    /\ LET es == Entries("google_news")
       IN  CASE web["google_news"] = "none" ->
                   /\ pool' = pool \o es
                   /\ error_tracker' =
                          log_success(error_tracker,
                                      "Google News (google_news)", Len(es))
             [] web["google_news"] = "open" ->
                   /\ pool' = pool
                   /\ error_tracker' =
                          log_error(error_tracker, "Google News (google_news)")
             [] web["google_news"] = "entry" ->
                   /\ pool' = pool \o KeptOnFault(es)
                   /\ error_tracker' =
                          log_error(error_tracker, "Google News (google_news)")
    /\ pc' = "hackernews"
    /\ UNCHANGED <<clock, run, cacheFile, failedFile, today_key, posted_titles,
                   cache, deduped, seen_hashes, raw_items, new_items, selected,
                   messages, idx, attempts, delay, waits, tries, status,
                   failed, existing, flushes, budget, hist, lost>>
    /\ UNCHANGED <<web, item, enriched, quoted>>

(* hackernews() has no try of its own: whatever it raises reaches the      *)
(* except of discover() and its items are lost.                            *)
FetchHackerNews ==
    /\ pc = "hackernews"
    /\ IF web["hackernews"] = "none"
       THEN /\ pool' = pool \o Entries("hackernews")
            /\ UNCHANGED error_tracker
       ELSE /\ pool' = pool
            /\ error_tracker' = log_error(error_tracker, "Hacker News")
    /\ pc' = "rss"
    /\ UNCHANGED <<clock, run, cacheFile, failedFile, today_key, posted_titles,
                   cache, deduped, seen_hashes, raw_items, new_items, selected,
                   messages, idx, attempts, delay, waits, tries, status,
                   failed, existing, flushes, budget, hist, lost>>
    /\ UNCHANGED <<web, item, enriched, quoted>>

(* discover(): one feed of rss_urls; rss_items is extended into the pool   *)
(* after the loop over the entries.  Successes are logged under the host   *)
(* of the feed, errors under its URL.                                      *)
FetchRss ==
    /\ pc = "rss"
    /\ LET es == Entries("rss")
       IN  IF web["rss"] = "none"
           THEN /\ pool' = pool \o es
                /\ error_tracker' =
                       log_success(error_tracker, "RSS host", Len(es))
           ELSE /\ pool' = pool
                /\ error_tracker' = log_error(error_tracker, "RSS rss")
    /\ pc' = "reddit"
    /\ UNCHANGED <<clock, run, cacheFile, failedFile, today_key, posted_titles,
                   cache, deduped, seen_hashes, raw_items, new_items, selected,
                   messages, idx, attempts, delay, waits, tries, status,
                   failed, existing, flushes, budget, hist, lost>>
    /\ UNCHANGED <<web, item, enriched, quoted>>

(* reddit_scrape(): one subreddit; the fetchers are done and the           *)
(* deduplication starts.                                                   *)
FetchReddit ==
    /\ pc = "reddit"
    /\ LET es == Entries("reddit")
       IN  CASE web["reddit"] = "none" ->
                   /\ pool' = pool \o es
                   /\ error_tracker' =
                          log_success(error_tracker, "Reddit r/reddit", Len(es))
             [] web["reddit"] = "open" ->
                   /\ pool' = pool
                   /\ error_tracker' =
                          log_error(error_tracker, "Reddit r/reddit")
             [] web["reddit"] = "entry" ->
                   /\ pool' = pool \o KeptOnFault(es)
                   /\ error_tracker' =
                          log_error(error_tracker, "Reddit r/reddit")
    /\ pc' = "dedup"
    /\ UNCHANGED <<clock, run, cacheFile, failedFile, today_key, posted_titles,
                   cache, deduped, seen_hashes, raw_items, new_items, selected,
                   messages, idx, attempts, delay, waits, tries, status,
                   failed, existing, flushes, budget, hist, lost>>
    /\ UNCHANGED <<web, item, enriched, quoted>>

(* discover() from its first line, on every way the sources answer. *)
InitFetch ==
    /\ clock = 1
    /\ run = 1
    /\ pc = "sites"
    /\ cacheFile = NoCacheFile
    /\ failedFile = NoFailedFile
    /\ today_key = 1
    /\ posted_titles = {}
    /\ cache = [date |-> 1, titles |-> <<>>]
    /\ FreshLocals
    /\ budget = 0
    /\ hist = <<>>
    /\ lost = {}
    /\ web \in Webs
    /\ error_tracker = NoReport
    /\ item = NoItem
    /\ enriched = NoEnriched
    /\ quoted = <<>>

NextFetch ==
    \/ FetchSite
    \/ FetchGeneric
    \/ FetchGoogleNews
    \/ FetchHackerNews
    \/ FetchRss
    \/ FetchReddit
    \/ Deduplicate
    \/ ReturnItems

SpecFetch == InitFetch /\ [][NextFetch]_vars

---------------------------------------------------------------------------
(* main() after discover(). *)

(* The filter testing i["url"] against the posted titles. *)
NotPostedByUrl(items, posted) ==
    LET Unposted(i) == i.url \notin posted
    IN  SelectSeq(items, Unposted)

(* [i for i in raw_items if i["title"] not in posted_titles] *)
NotPosted(items, posted) ==
    LET Unposted(i) == i.title \notin posted
    IN  SelectSeq(items, Unposted)

(* main(): filter out the titles already posted today, pick the top        *)
(* POSTS_PER_DAY.                                                          *)
Select ==
    /\ pc = "discovered"
    /\ new_items' = NotPosted(raw_items, posted_titles)
    /\ selected' = Take(new_items', POSTS_PER_DAY)
    /\ pc' = "build"
    /\ UNCHANGED <<clock, run, cacheFile, failedFile, today_key, posted_titles,
                   cache, pool, deduped, seen_hashes, raw_items, messages,
                   idx, attempts, delay, waits, tries, status, failed,
                   existing, flushes, budget, hist, lost>>
    /\ UNCHANGED <<web, error_tracker, item, enriched, quoted>>

(* The loop over selected without cache["titles"].append. *)
RecordedNothing(c, sel) == c

(* main(): cache after cache["titles"].append(itm["title"]) for every      *)
(* selected item.                                                          *)
Recorded(c, sel) == [c EXCEPT !.titles = @ \o TitlesOf(sel)]

(* main(): the loop over selected.  enrich() never returns an empty dict,  *)
(* so every selected item yields a message and its title is appended to    *)
(* cache["titles"].                                                        *)
Build ==
    /\ pc = "build"
    /\ messages' = [i \in 1..Len(selected) |-> BuildPost(selected[i])]
    /\ cache' = Recorded(cache, selected)
    /\ pc' = "save"
    /\ UNCHANGED <<clock, run, cacheFile, failedFile, today_key, posted_titles,
                   pool, deduped, seen_hashes, raw_items, new_items, selected,
                   idx, attempts, delay, waits, tries, status, failed,
                   existing, flushes, budget, hist, lost>>
    /\ UNCHANGED <<web, error_tracker, item, enriched, quoted>>

(* main(): CACHE_FILE.write_text(json.dumps(cache)), before delivery. *)
SaveCache ==
    /\ pc = "save"
    /\ cacheFile' = [exists |-> TRUE, date |-> cache.date,
                      titles |-> cache.titles]
    /\ hist' = Append(hist, [run |-> run, date |-> cache.date,
                             titles |-> Range(cache.titles)])
    /\ pc' = "deliver"
    /\ UNCHANGED <<clock, run, failedFile, today_key, posted_titles, cache,
                   pool, deduped, seen_hashes, raw_items, new_items, selected,
                   messages, idx, attempts, delay, waits, tries, status,
                   failed, existing, flushes, budget, lost>>
    /\ UNCHANGED <<web, error_tracker, item, enriched, quoted>>

---------------------------------------------------------------------------
(* DeliveryEngine. *)

(* run(): build the application, failed = [], reach the loop head. *)
RunEnter ==
    /\ pc = "deliver"
    /\ failed' = <<>>
    /\ idx' = 1
    /\ tries' = [i \in 1..Len(messages) |-> 0]
    /\ status' = [i \in 1..Len(messages) |-> "PENDING"]
    /\ pc' = "next"
    /\ UNCHANGED <<clock, run, cacheFile, failedFile, today_key, posted_titles,
                   cache, pool, deduped, seen_hashes, raw_items, new_items,
                   selected, messages, attempts, delay, waits, existing, flushes,
                   budget, hist, lost>>
    /\ UNCHANGED <<web, error_tracker, item, enriched, quoted>>

(* run(): take the next msg; send_post(): attempts, delay = 0, 5. *)
NextMessage ==
    /\ pc = "next"
    /\ idx <= Len(messages)
    /\ attempts' = 0
    /\ delay' = BaseDelay
    /\ waits' = <<>>
    /\ status' = [status EXCEPT ![idx] = "SENDING"]
    /\ pc' = "send"
    /\ UNCHANGED <<clock, run, cacheFile, failedFile, today_key, posted_titles,
                   cache, pool, deduped, seen_hashes, raw_items, new_items,
                   selected, messages, idx, tries, failed, existing, flushes, budget,
                   hist, lost>>
    /\ UNCHANGED <<web, error_tracker, item, enriched, quoted>>

(* The loop of send_post() entered once more after the third failure. *)
MayAttemptOnceMore(a) == a <= MaxAttempts

(* send_post(): "while attempts < 3". *)
MayAttempt(a) == a < MaxAttempts

(* send_post(): send_message succeeds, return True. *)
SendOk ==
    /\ pc = "send"
    /\ MayAttempt(attempts)
    /\ tries' = [tries EXCEPT ![idx] = @ + 1]
    /\ status' = [status EXCEPT ![idx] = "SENT"]
    /\ pc' = "sleep"
    /\ UNCHANGED <<clock, run, cacheFile, failedFile, today_key, posted_titles,
                   cache, pool, deduped, seen_hashes, raw_items, new_items,
                   selected, messages, idx, attempts, delay, waits, failed,
                   existing, flushes, budget, hist, lost>>
    /\ UNCHANGED <<web, error_tracker, item, enriched, quoted>>

(* The retry delay left as it is. *)
NextDelaySame(d) == d

(* send_post(): delay *= 2. *)
NextDelay(d) == d * 2

(* The sleep send_post() takes after a failed attempt. *)
Backoff(d, jitter) == d + jitter

(* send_post(): send_message raises; count the attempt, sleep             *)
(* delay + jitter, double the delay.                                       *)
SendFail ==
    /\ pc = "send"
    /\ MayAttempt(attempts)
    /\ budget > 0
    /\ \E jitter \in 0..MaxJitter :
          waits' = Append(waits, Backoff(delay, jitter))
    /\ budget' = budget - 1
    /\ tries' = [tries EXCEPT ![idx] = @ + 1]
    /\ attempts' = attempts + 1
    /\ delay' = NextDelay(delay)
    /\ UNCHANGED <<clock, run, pc, cacheFile, failedFile, today_key,
                   posted_titles, cache, pool, deduped, seen_hashes,
                   raw_items, new_items, selected, messages, idx, status,
                   failed, existing, flushes, hist, lost>>
    /\ UNCHANGED <<web, error_tracker, item, enriched, quoted>>

(* send_post(): the loop ends, return False; run(): failed.append(msg). *)
GiveUp ==
    /\ pc = "send"
    /\ ~MayAttempt(attempts)
    /\ failed' = Append(failed, messages[idx])
    /\ status' = [status EXCEPT ![idx] = "FAILED"]
    /\ lost' = lost \cup {[run |-> run, date |-> today_key,
                           title |-> messages[idx].card]}
    /\ pc' = "sleep"
    /\ UNCHANGED <<clock, run, cacheFile, failedFile, today_key, posted_titles,
                   cache, pool, deduped, seen_hashes, raw_items, new_items,
                   selected, messages, idx, attempts, delay, waits, tries,
                   existing, flushes, budget, hist>>
    /\ UNCHANGED <<web, error_tracker, item, enriched, quoted>>

(* The loop of run() leaving at the first message that failed. *)
AdvanceUnlessFailed(i, n, st) == IF st = "FAILED" THEN n + 1 ELSE i + 1

(* The loop of run() stepping over the message after the current one. *)
AdvanceSkip(i, n, st) == i + 2

(* run(): the for loop moves to the next msg whatever send_post returned. *)
Advance(i, n, st) == i + 1

(* run(): asyncio.sleep(DELAY_BETWEEN_POSTS), back to the loop head; the   *)
(* locals of the send_post() call that returned are gone.                  *)
PostDelay ==
    /\ pc = "sleep"
    /\ idx' = Advance(idx, Len(messages), status[idx])
    /\ attempts' = 0
    /\ delay' = 0
    /\ waits' = <<>>
    /\ pc' = "next"
    /\ UNCHANGED <<clock, run, cacheFile, failedFile, today_key, posted_titles,
                   cache, pool, deduped, seen_hashes, raw_items, new_items,
                   selected, messages, tries, status, failed, existing, flushes,
                   budget, hist, lost>>
    /\ UNCHANGED <<web, error_tracker, item, enriched, quoted>>

(* What run() reads as existing from failed_posts.json: the list when the  *)
(* file parses, [] when the file is absent or read_text / json.loads       *)
(* raises.                                                                 *)
Existing(f) == IF f.kind = "list" THEN f.entries ELSE <<>>

(* existing.extend(failed) with failed.append(msg) done a second time. *)
ExtendedTwice(ex, f) == ex \o f \o f

(* run(): existing.extend(failed), the list written to failed_posts.json. *)
Extended(ex, f) == ex \o f

(* The test "if failed:" taken to hold whatever failed is. *)
AnyFailedAlways(f) == TRUE

(* run(): "if failed:". *)
AnyFailed(f) == f # <<>>

(* run(): after the loop, write failed_posts.json if any message failed.   *)
(* When the file parses to something that is not a list, existing.extend   *)
(* raises outside the try and the invocation ends there.                   *)
Flush ==
    /\ pc = "next"
    /\ idx > Len(messages)
    /\ IF ~AnyFailed(failed)
       THEN /\ pc' = "exit"
            /\ UNCHANGED <<failedFile, existing, flushes>>
       ELSE IF failedFile.kind = "other"
            THEN /\ pc' = "crashed"
                 /\ UNCHANGED <<failedFile, existing, flushes>>
            ELSE /\ existing' = Existing(failedFile)
                 /\ failedFile' = [kind |-> "list",
                                   entries |-> Extended(existing', failed)]
                 /\ flushes' = flushes + 1
                 /\ pc' = "exit"
    /\ UNCHANGED <<clock, run, cacheFile, today_key, posted_titles, cache,
                   pool, deduped, seen_hashes, raw_items, new_items, selected,
                   messages, idx, attempts, delay, waits, tries, status,
                   failed, budget, hist, lost>>
    /\ UNCHANGED <<web, error_tracker, item, enriched, quoted>>

(* run(): close the application; main(): RUN COMPLETE. *)
Exit ==
    /\ pc = "exit"
    /\ pc' = "done"
    /\ UNCHANGED <<clock, run, cacheFile, failedFile, today_key, posted_titles,
                   cache, pool, deduped, seen_hashes, raw_items, new_items,
                   selected, messages, idx, attempts, delay, waits, tries,
                   status, failed, existing, flushes, budget, hist, lost>>
    /\ UNCHANGED <<web, error_tracker, item, enriched, quoted>>

(* __main__: KeyboardInterrupt ends the invocation wherever it is; the     *)
(* process exits and its locals are gone, the files stay as they are.      *)
Interrupt ==
    /\ ~Resting
    /\ pc' = "interrupted"
    /\ posted_titles' = {}
    /\ cache' = [date |-> today_key, titles |-> <<>>]
    /\ pool' = <<>>
    /\ deduped' = <<>>
    /\ seen_hashes' = {}
    /\ raw_items' = <<>>
    /\ new_items' = <<>>
    /\ selected' = <<>>
    /\ messages' = <<>>
    /\ idx' = 0
    /\ attempts' = 0
    /\ delay' = 0
    /\ waits' = <<>>
    /\ tries' = <<>>
    /\ status' = <<>>
    /\ failed' = <<>>
    /\ existing' = <<>>
    /\ UNCHANGED <<clock, run, cacheFile, failedFile, today_key, flushes,
                   budget, hist, lost>>
    /\ UNCHANGED <<web, error_tracker, item, enriched, quoted>>

Deliver ==
    \/ RunEnter
    \/ NextMessage
    \/ SendOk
    \/ SendFail
    \/ GiveUp
    \/ PostDelay
    \/ Flush
    \/ Exit

Next ==
    \/ Tick
    \/ LoadCache
    \/ Fetch
    \/ Deduplicate
    \/ ReturnItems
    \/ Select
    \/ Build
    \/ SaveCache
    \/ Deliver
    \/ Interrupt

Spec == Init /\ [][Next]_vars

(* The merged pools of a busy day: more distinct stories than one          *)
(* invocation selects.                                                     *)
BusyPools == { Bulk(POSTS_PER_DAY + 2), Bulk(MaxBulk) }

(* discover(): the fetchers fill the pool on a busy day. *)
FetchBusy ==
    /\ pc = "fetch"
    /\ \E p \in BusyPools : pool' = p
    /\ pc' = "dedup"
    /\ UNCHANGED <<clock, run, cacheFile, failedFile, today_key, posted_titles,
                   cache, deduped, seen_hashes, raw_items, new_items, selected,
                   messages, idx, attempts, delay, waits, tries, status,
                   failed, existing, flushes, budget, hist, lost>>
    /\ UNCHANGED <<web, error_tracker, item, enriched, quoted>>

(* main() on busy days with a transport that never raises. *)
InitBusy ==
    /\ clock = 1
    /\ run = 0
    /\ pc = "idle"
    /\ cacheFile = NoCacheFile
    /\ failedFile = NoFailedFile
    /\ today_key = 0
    /\ posted_titles = {}
    /\ cache = [date |-> 0, titles |-> <<>>]
    /\ FreshLocals
    /\ budget = 0
    /\ hist = <<>>
    /\ lost = {}
    /\ OtherStagesIdle

NextBusy ==
    \/ Tick
    \/ LoadCache
    \/ FetchBusy
    \/ Deduplicate
    \/ ReturnItems
    \/ Select
    \/ Build
    \/ SaveCache
    \/ RunEnter
    \/ NextMessage
    \/ SendOk
    \/ PostDelay
    \/ Flush
    \/ Exit
    \/ Interrupt

SpecBusy == InitBusy /\ [][NextBusy]_vars

(* DeliveryEngine.run alone, on every batch of Batches and every prior     *)
(* content of failed_posts.json of FailedFiles.                            *)
M1 == BuildPost(K7)
M2 == BuildPost(K1)
M0 == BuildPost(K5)

Batches == SeqsUpTo({M1, M2}, MaxBatch)

FailedFiles ==
    { NoFailedFile,
      [kind |-> "list", entries |-> <<>>],
      [kind |-> "list", entries |-> <<M0, M1>>],
      [kind |-> "unparseable", entries |-> <<M0>>],
      [kind |-> "other", entries |-> <<>>] }

InitDelivery ==
    /\ clock = 1
    /\ run = 1
    /\ pc = "deliver"
    /\ cacheFile = [exists |-> TRUE, date |-> 1, titles |-> <<>>]
    /\ failedFile \in FailedFiles
    /\ today_key = 1
    /\ posted_titles = {}
    /\ cache = [date |-> 1, titles |-> <<>>]
    /\ pool = <<>>
    /\ deduped = <<>>
    /\ seen_hashes = {}
    /\ raw_items = <<>>
    /\ new_items = <<>>
    /\ selected = <<>>
    /\ messages \in Batches
    /\ idx = 0
    /\ attempts = 0
    /\ delay = 0
    /\ waits = <<>>
    /\ tries = <<>>
    /\ status = <<>>
    /\ failed = <<>>
    /\ existing = <<>>
    /\ flushes = 0
    /\ budget = MaxAttempts * Len(messages)
    /\ hist = <<>>
    /\ lost = {}
    /\ OtherStagesIdle

NextDelivery == Deliver \/ Interrupt

SpecDelivery == InitDelivery /\ [][NextDelivery]_vars

(* DeliveryEngine.run alone and left to run: no KeyboardInterrupt, and     *)
(* every await of run() and send_post() (send_message, asyncio.sleep)      *)
(* returns, so the coroutine always takes its next step.                   *)
SpecDeliveryFair == InitDelivery /\ [][Deliver]_vars /\ WF_vars(Deliver)

---------------------------------------------------------------------------
(* SignalEngine.enrich.  The title, the company and the headline are       *)
(* sequences of one-character strings, so that lower(), title(), "in" and  *)
(* re.search work on them as they do on a Python str.  Strings are ASCII:  *)
(* the emoji that opens each tag and the flag emojis are left out, a       *)
(* country's flag is represented by its country code, and "--" is the one  *)
(* character of the em dash.                                               *)

UpperLetters == <<"A", "B", "C", "D", "E", "F", "G", "H", "I", "J", "K", "L",
   "M", "N", "O", "P", "Q", "R", "S", "T", "U", "V", "W", "X", "Y", "Z">>

LowerLetters == <<"a", "b", "c", "d", "e", "f", "g", "h", "i", "j", "k", "l",
   "m", "n", "o", "p", "q", "r", "s", "t", "u", "v", "w", "x", "y", "z">>

IsUpper(c) == \E i \in 1..Len(UpperLetters) : UpperLetters[i] = c

IsLower(c) == \E i \in 1..Len(LowerLetters) : LowerLetters[i] = c

LetterIndex(letters, c) == CHOOSE i \in 1..Len(letters) : letters[i] = c

ToLower(c) ==
    IF IsUpper(c) THEN LowerLetters[LetterIndex(UpperLetters, c)] ELSE c

ToUpper(c) ==
    IF IsLower(c) THEN UpperLetters[LetterIndex(LowerLetters, c)] ELSE c

(* str.lower() *)
str_lower(s) == [i \in 1..Len(s) |-> ToLower(s[i])]

(* str.title(): a letter is upper case after anything that is not a        *)
(* letter and at the start, lower case after a letter.                     *)
str_title(s) ==
    [i \in 1..Len(s) |->
        IF i = 1 \/ ~(IsUpper(s[i - 1]) \/ IsLower(s[i - 1]))
        THEN ToUpper(s[i])
        ELSE ToLower(s[i])]

(* Python's "sub in s" for str. *)
In(sub, s) ==
    \E i \in 0..(Len(s) - Len(sub)) : SubSeq(s, i + 1, i + Len(sub)) = sub

(* any(word in s for word in words) *)
AnyIn(words, s) == \E w \in words : In(w, s)

KNOWN_COMPANIES ==
    { <<"o", "p", "e", "n", "a", "i">>,
      <<"g", "o", "o", "g", "l", "e">>,
      <<"m", "i", "c", "r", "o", "s", "o", "f", "t">>,
      <<"m", "e", "t", "a">>,
      <<"f", "a", "c", "e", "b", "o", "o", "k">>,
      <<"a", "p", "p", "l", "e">>,
      <<"a", "m", "a", "z", "o", "n">>,
      <<"n", "v", "i", "d", "i", "a">>,
      <<"t", "e", "s", "l", "a">>,
      <<"s", "p", "a", "c", "e", "x">>,
      <<"a", "n", "t", "h", "r", "o", "p", "i", "c">>,
      <<"d", "e", "e", "p", "m", "i", "n", "d">>,
      <<"h", "u", "a", "w", "e", "i">>,
      <<"b", "a", "i", "d", "u">>,
      <<"a", "l", "i", "b", "a", "b", "a">>,
      <<"t", "e", "n", "c", "e", "n", "t">>,
      <<"i", "n", "f", "o", "s", "y", "s">>,
      <<"t", "c", "s">>,
      <<"w", "i", "p", "r", "o">>,
      <<"h", "c", "l">>,
      <<"t", "e", "c", "h", " ", "m", "a", "h", "i", "n", "d", "r", "a">>,
      <<"c", "o", "g", "n", "i", "z", "a", "n", "t">>,
      <<"a", "c", "c", "e", "n", "t", "u", "r", "e">>,
      <<"s", "a", "m", "s", "u", "n", "g">>,
      <<"s", "o", "n", "y">>,
      <<"i", "n", "t", "e", "l">>,
      <<"a", "m", "d">>,
      <<"q", "u", "a", "l", "c", "o", "m", "m">>,
      <<"b", "r", "o", "a", "d", "c", "o", "m">>,
      <<"o", "r", "a", "c", "l", "e">>,
      <<"s", "a", "l", "e", "s", "f", "o", "r", "c", "e">>,
      <<"u", "b", "e", "r">>,
      <<"l", "y", "f", "t">>,
      <<"a", "i", "r", "b", "n", "b">>,
      <<"s", "t", "r", "i", "p", "e">>,
      <<"p", "a", "y", "p", "a", "l">>,
      <<"s", "q", "u", "a", "r", "e">>,
      <<"r", "o", "b", "i", "n", "h", "o", "o", "d">>,
      <<"c", "o", "i", "n", "b", "a", "s", "e">>,
      <<"z", "o", "o", "m">>,
      <<"s", "l", "a", "c", "k">>,
      <<"s", "p", "o", "t", "i", "f", "y">>,
      <<"n", "e", "t", "f", "l", "i", "x">>,
      <<"t", "w", "i", "t", "t", "e", "r">>,
      <<"x", " ", "c", "o", "r", "p">>,
      <<"l", "i", "n", "k", "e", "d", "i", "n">>,
      <<"t", "i", "k", "t", "o", "k">>,
      <<"b", "y", "t", "e", "d", "a", "n", "c", "e">>,
      <<"s", "n", "a", "p">>,
      <<"p", "i", "n", "t", "e", "r", "e", "s", "t">>,
      <<"r", "e", "d", "d", "i", "t">>,
      <<"d", "i", "s", "c", "o", "r", "d">>,
      <<"t", "w", "i", "t", "c", "h">>,
      <<"e", "p", "i", "c", " ", "g", "a", "m", "e", "s">> }

(* SignalEngine.ticker_cache *)
ticker_cache ==
    { [key |-> <<"O", "p", "e", "n", "A", "I">>, ticker |-> "MSFT"],
      [key |-> <<"G", "o", "o", "g", "l", "e">>, ticker |-> "GOOGL"],
      [key |-> <<"A", "l", "p", "h", "a", "b", "e", "t">>,
         ticker |-> "GOOGL"],
      [key |-> <<"M", "i", "c", "r", "o", "s", "o", "f", "t">>,
         ticker |-> "MSFT"],
      [key |-> <<"M", "e", "t", "a">>, ticker |-> "META"],
      [key |-> <<"N", "v", "i", "d", "i", "a">>, ticker |-> "NVDA"],
      [key |-> <<"I", "n", "f", "o", "s", "y", "s">>, ticker |-> "INFY"],
      [key |-> <<"T", "C", "S">>, ticker |-> "TCS.NS"],
      [key |-> <<"S", "A", "P">>, ticker |-> "SAP"] }

TechCorp == <<"T", "e", "c", "h", "C", "o", "r", "p">>

(* The whitelist names found in the lowered title. *)
Matches(title_lower) == {k \in KNOWN_COMPANIES : In(k, title_lower)}

(* The names the loop over sorted(KNOWN_COMPANIES, key=len, reverse=True)  *)
(* can stop at: a longest name found.  The sort is stable and the order of *)
(* a set of str changes from one process to the next, so among names of    *)
(* the same length any can come first.                                     *)
FirstMatches(title_lower) ==
    {k \in Matches(title_lower) :
        \A j \in Matches(title_lower) : Len(j) <= Len(k)}

Spaces == {" "}

LaunchVerbs ==
    { <<"a", "n", "n", "o", "u", "n", "c", "e", "s">>,
      <<"l", "a", "u", "n", "c", "h", "e", "s">>,
      <<"r", "e", "l", "e", "a", "s", "e", "s">>,
      <<"u", "n", "v", "e", "i", "l", "s">> }

Stopwords ==
    { <<"t", "h", "e">>,
      <<"n", "e", "w">>,
      <<"b", "i", "g">>,
      <<"t", "o", "p">>,
      <<"b", "e", "s", "t">> }

(* [A-Z][a-z]+ from position i: the positions where it can end. *)
WordEnds(s, i) ==
    IF i <= Len(s) /\ IsUpper(s[i])
    THEN {e \in (i + 1)..Len(s) : \A k \in (i + 1)..e : IsLower(s[k])}
    ELSE {}

(* \s+ from position e + 1: the positions where what follows can start. *)
AfterSpaces(s, e) ==
    {j \in (e + 2)..(Len(s) + 1) :
        \A k \in (e + 1)..(j - 1) : s[k] \in Spaces}

(* [A-Z][a-z]+(?:\s+[A-Z][a-z]+)* from position i: the positions where    *)
(* it can end.                                                             *)
RECURSIVE GroupEnds(_, _)
GroupEnds(s, i) ==
    WordEnds(s, i) \cup
    UNION {GroupEnds(s, j) :
              j \in UNION {AfterSpaces(s, e) : e \in WordEnds(s, i)}}

(* What follows the group in each of the three patterns. *)
Follows(p, s, e) ==
    CASE p = 1 -> \E j \in AfterSpaces(s, e) : \E w \in LaunchVerbs :
                      /\ j + Len(w) - 1 <= Len(s)
                      /\ SubSeq(s, j, j + Len(w) - 1) = w
      [] p = 2 -> e + 1 <= Len(s) /\ s[e + 1] \in Spaces
      [] p = 3 -> /\ e + 3 <= Len(s)
                  /\ s[e + 1] = "'"
                  /\ s[e + 2] = "s"
                  /\ s[e + 3] \in Spaces

(* The positions where a match of pattern p can start; the second pattern  *)
(* is anchored.                                                            *)
MatchStarts(p, s) ==
    {i \in (IF p = 2 THEN {1} ELSE 1..Len(s)) :
        \E e \in GroupEnds(s, i) : Follows(p, s, e)}

(* re.search(pattern, title).group(1): the leftmost match, and the longest *)
(* group there, every quantifier being greedy.                             *)
Group1(p, s) ==
    LET i == CHOOSE a \in MatchStarts(p, s) :
                 \A b \in MatchStarts(p, s) : a <= b
        ends == {e \in GroupEnds(s, i) : Follows(p, s, e)}
        e == CHOOSE a \in ends : \A b \in ends : b <= a
    IN  SubSeq(s, i, e)

(* enrich(): the loop over patterns, from pattern p on. *)
RECURSIVE PatternLoop(_, _)
PatternLoop(p, s) ==
    IF p > 3
    THEN TechCorp
    ELSE IF /\ MatchStarts(p, s) # {}
            /\ Len(Group1(p, s)) > 2
            /\ str_lower(Group1(p, s)) \notin Stopwords
         THEN Group1(p, s)
         ELSE PatternLoop(p + 1, s)

(* enrich(): the values company can have after the whitelist and the       *)
(* patterns.                                                               *)
Companies(t) ==
    IF Matches(str_lower(t)) # {}
    THEN {str_title(k) : k \in FirstMatches(str_lower(t))}
    ELSE {PatternLoop(1, t)}

(* self.ticker_cache.get(company); "" is None. *)
Ticker(company) ==
    IF \E r \in ticker_cache : r.key = company
    THEN (CHOOSE r \in ticker_cache : r.key = company).ticker
    ELSE ""

IndianCompanies ==
    { <<"i", "n", "f", "o", "s", "y", "s">>,
      <<"t", "c", "s">>,
      <<"w", "i", "p", "r", "o">>,
      <<"h", "c", "l">> }

ChineseCompanies ==
    { <<"h", "u", "a", "w", "e", "i">>,
      <<"b", "a", "i", "d", "u">>,
      <<"a", "l", "i", "b", "a", "b", "a">>,
      <<"t", "e", "n", "c", "e", "n", "t">>,
      <<"b", "y", "t", "e", "d", "a", "n", "c", "e">> }

(* enrich(): country inference. *)
Country(company) ==
    IF AnyIn(IndianCompanies, str_lower(company)) THEN "India"
    ELSE IF AnyIn(ChineseCompanies, str_lower(company)) THEN "China"
    ELSE "USA"

(* self.country_emojis.get(country, globe) *)
country_emojis(country) ==
    CASE country = "India" -> "IN"
      [] country = "USA" -> "US"
      [] country = "China" -> "CN"
      [] OTHER -> "globe"

verbs ==
    << <<"s", "h", "u", "t", "s", " ", "d", "o", "w", "n">>,
       <<"e", "x", "p", "l", "o", "d", "e", "s">>,
       <<"q", "u", "i", "e", "t", "l", "y", " ", "b", "u", "i", "l", "d",
          "s">>,
       <<"r", "e", "p", "l", "a", "c", "e", "s">>,
       <<"t", "u", "r", "b", "o", "-", "c", "h", "a", "r", "g", "e", "s">>,
       <<"s", "i", "l", "e", "n", "t", "l", "y", " ", "f", "i", "r", "e",
          "s">> >>

EmotionalWords ==
    { <<"b", "r", "e", "a", "k", "s">>,
      <<"s", "h", "o", "c", "k", "i", "n", "g">>,
      <<"m", "a", "s", "s", "i", "v", "e">>,
      <<"h", "u", "g", "e">>,
      <<"m", "a", "j", "o", "r">> }

(* title.split(':')[0] if ':' in title else title *)
MainPart(t) ==
    IF \E i \in 1..Len(t) : t[i] = ":"
    THEN SubSeq(t, 1, (CHOOSE i \in 1..Len(t) :
                          t[i] = ":" /\ \A k \in 1..(i - 1) : t[k] # ":") - 1)
    ELSE t

(* enrich(): new_headline, verb being random.choice(verbs). *)
Headline(t, company, verb) ==
    IF \/ AnyIn(Range(verbs), str_lower(t))
       \/ AnyIn(EmotionalWords, str_lower(t))
    THEN t
    ELSE company \o <<" ">> \o str_title(verb) \o <<" ", "--", " ">>
         \o MainPart(t)

LayoffWords ==
    { <<"l", "a", "y", "o", "f", "f">>,
      <<"f", "i", "r", "e">>,
      <<"c", "u", "t">>,
      <<"r", "e", "d", "u", "c", "e">>,
      <<"c", "l", "o", "s", "e">>,
      <<"s", "h", "u", "t">> }

GrowthWords ==
    { <<"f", "u", "n", "d", "i", "n", "g">>,
      <<"r", "a", "i", "s", "e">>,
      <<"g", "r", "o", "w", "t", "h">>,
      <<"l", "a", "u", "n", "c", "h">>,
      <<"h", "i", "r", "e">>,
      <<"e", "x", "p", "a", "n", "d">> }

ToolWords ==
    { <<"a", "i">>,
      <<"t", "o", "o", "l">>,
      <<"a", "p", "p">>,
      <<"p", "l", "a", "t", "f", "o", "r", "m">>,
      <<"m", "o", "d", "e", "l">> }

(* The tagging with the growth keywords tested before the layoff ones. *)
SentimentTagGrowthFirst(title_lower) ==
    IF AnyIn(GrowthWords, title_lower) THEN "Growth"
    ELSE IF AnyIn(LayoffWords, title_lower) THEN "Layoff"
    ELSE IF AnyIn(ToolWords, title_lower) THEN "New Tool"
    ELSE "Strategy"

(* enrich(): chosen_tag. *)
SentimentTag(title_lower) ==
    IF AnyIn(LayoffWords, title_lower) THEN "Layoff"
    ELSE IF AnyIn(GrowthWords, title_lower) THEN "Growth"
    ELSE IF AnyIn(ToolWords, title_lower) THEN "New Tool"
    ELSE "Strategy"

(* n with at least two digits. *)
TwoDigits(n) == IF n < 10 THEN "0" \o ToString(n) ELSE ToString(n)

(* format(n, ","): the digits in groups of three. *)
RECURSIVE Grouped(_)
Grouped(n) ==
    IF n < 1000
    THEN ToString(n)
    ELSE Grouped(n \div 1000) \o ","
         \o (IF n % 1000 < 100 THEN "0" ELSE "") \o TwoDigits(n % 1000)

(* f"${price:,.2f}", the price counted in cents. *)
Money(cents) ==
    "$" \o Grouped(cents \div 100) \o "." \o TwoDigits(cents % 100)

(* What yf.Ticker(ticker).info.get("regularMarketPrice") does: it raises   *)
(* (ok is FALSE), returns None (price 0) or returns a price, in cents.     *)
Answers ==
    { [ok |-> FALSE, price |-> 0],
      [ok |-> TRUE, price |-> 0],
      [ok |-> TRUE, price |-> 18350],
      [ok |-> TRUE, price |-> 123456789] }

(* enrich(): stock_price. *)
StockPrice(ticker, answer) ==
    IF ticker # "" /\ answer.ok /\ answer.price # 0
    THEN Money(answer.price)
    ELSE "N/A"

(* enrich(item). *)
Enrich ==
    /\ pc = "enrich"
    /\ \E company \in Companies(item.title) :
       \E verb \in Range(verbs) :
       \E answer \in Answers :
          LET ticker == Ticker(company)
              country == Country(company)
          IN  /\ quoted' = IF ticker # ""
                           THEN <<[ticker |-> ticker, answer |-> answer]>>
                           ELSE <<>>
              /\ enriched' =
                    [company |-> company,
                     country |-> country,
                     emoji |-> country_emojis(country),
                     headline |-> Headline(item.title, company, verb),
                     stock |-> StockPrice(ticker, answer),
                     tag |-> SentimentTag(str_lower(item.title)),
                     url |-> item.url]
    /\ pc' = "enriched"
    /\ UNCHANGED <<clock, run, cacheFile, failedFile, today_key, posted_titles,
                   cache, pool, deduped, seen_hashes, raw_items, new_items,
                   selected, messages, idx, attempts, delay, waits, tries,
                   status, failed, existing, flushes, budget, hist, lost>>
    /\ UNCHANGED <<web, error_tracker, item>>

(* The titles enrich() is checked on. *)
Titles ==
    { (* Meta layoffs hit 2000 engineers *)
      <<"M", "e", "t", "a", " ", "l", "a", "y", "o", "f", "f", "s", " ", "h",
         "i", "t", " ", "2", "0", "0", "0", " ", "e", "n", "g", "i", "n", "e",
         "e", "r", "s">>,
      (* OpenAI launches GPT store *)
      <<"O", "p", "e", "n", "A", "I", " ", "l", "a", "u", "n", "c", "h", "e",
         "s", " ", "G", "P", "T", " ", "s", "t", "o", "r", "e">>,
      (* TCS to hire 40000 freshers *)
      <<"T", "C", "S", " ", "t", "o", " ", "h", "i", "r", "e", " ", "4", "0",
         "0", "0", "0", " ", "f", "r", "e", "s", "h", "e", "r", "s">>,
      (* Google unveils Gemini model *)
      <<"G", "o", "o", "g", "l", "e", " ", "u", "n", "v", "e", "i", "l", "s",
         " ", "G", "e", "m", "i", "n", "i", " ", "m", "o", "d", "e", "l">>,
      (* Microsoft cuts 1000 jobs amid AI growth *)
      <<"M", "i", "c", "r", "o", "s", "o", "f", "t", " ", "c", "u", "t", "s",
         " ", "1", "0", "0", "0", " ", "j", "o", "b", "s", " ", "a", "m", "i",
         "d", " ", "A", "I", " ", "g", "r", "o", "w", "t", "h">>,
      (* Nvidia breaks revenue record *)
      <<"N", "v", "i", "d", "i", "a", " ", "b", "r", "e", "a", "k", "s", " ",
         "r", "e", "v", "e", "n", "u", "e", " ", "r", "e", "c", "o", "r",
         "d">>,
      (* Infosys wins deal: details inside *)
      <<"I", "n", "f", "o", "s", "y", "s", " ", "w", "i", "n", "s", " ", "d",
         "e", "a", "l", ":", " ", "d", "e", "t", "a", "i", "l", "s", " ", "i",
         "n", "s", "i", "d", "e">>,
      (* Meta and Uber sign pact *)
      <<"M", "e", "t", "a", " ", "a", "n", "d", " ", "U", "b", "e", "r", " ",
         "s", "i", "g", "n", " ", "p", "a", "c", "t">>,
      (* Samsung and Meta expand chip plans *)
      <<"S", "a", "m", "s", "u", "n", "g", " ", "a", "n", "d", " ", "M", "e",
         "t", "a", " ", "e", "x", "p", "a", "n", "d", " ", "c", "h", "i", "p",
         " ", "p", "l", "a", "n", "s">>,
      (* Acme announces new robot *)
      <<"A", "c", "m", "e", " ", "a", "n", "n", "o", "u", "n", "c", "e", "s",
         " ", "n", "e", "w", " ", "r", "o", "b", "o", "t">>,
      (* The Big Short returns *)
      <<"T", "h", "e", " ", "B", "i", "g", " ", "S", "h", "o", "r", "t", " ",
         "r", "e", "t", "u", "r", "n", "s">>,
      (* The end of an era *)
      <<"T", "h", "e", " ", "e", "n", "d", " ", "o", "f", " ", "a", "n", " ",
         "e", "r", "a">>,
      (* how Zed's editor grew *)
      <<"h", "o", "w", " ", "Z", "e", "d", "'", "s", " ", "e", "d", "i", "t",
         "o", "r", " ", "g", "r", "e", "w">>,
      (* Firefox shortcut saved *)
      <<"F", "i", "r", "e", "f", "o", "x", " ", "s", "h", "o", "r", "t", "c",
         "u", "t", " ", "s", "a", "v", "e", "d">>,
      (* Tesla shuts down plant *)
      <<"T", "e", "s", "l", "a", " ", "s", "h", "u", "t", "s", " ", "d", "o",
         "w", "n", " ", "p", "l", "a", "n", "t">>,
      (* Alibaba raises funding *)
      <<"A", "l", "i", "b", "a", "b", "a", " ", "r", "a", "i", "s", "e", "s",
         " ", "f", "u", "n", "d", "i", "n", "g">>,
      (* quiet day *)
      <<"q", "u", "i", "e", "t", " ", "d", "a", "y">>,
      (* Tech Mahindra and Infosys merge *)
      <<"T", "e", "c", "h", " ", "M", "a", "h", "i", "n", "d", "r", "a", " ",
         "a", "n", "d", " ", "I", "n", "f", "o", "s", "y", "s", " ", "m", "e",
         "r", "g", "e">>,
      (* Alphabet's Google buys startup *)
      <<"A", "l", "p", "h", "a", "b", "e", "t", "'", "s", " ", "G", "o", "o",
         "g", "l", "e", " ", "b", "u", "y", "s", " ", "s", "t", "a", "r", "t",
         "u", "p">>,
      (* nvidia stock soars *)
      <<"n", "v", "i", "d", "i", "a", " ", "s", "t", "o", "c", "k", " ", "s",
         "o", "a", "r", "s">>,
      (* Bytedance app banned *)
      <<"B", "y", "t", "e", "d", "a", "n", "c", "e", " ", "a", "p", "p", " ",
         "b", "a", "n", "n", "e", "d">>,
      (* iPhone's rise stalls *)
      <<"i", "P", "h", "o", "n", "e", "'", "s", " ", "r", "i", "s", "e", " ",
         "s", "t", "a", "l", "l", "s">>,
      (* Big Tech's bet pays off *)
      <<"B", "i", "g", " ", "T", "e", "c", "h", "'", "s", " ", "b", "e", "t",
         " ", "p", "a", "y", "s", " ", "o", "f", "f">> }

(* enrich() alone, on every title of Titles. *)
InitEnrich ==
    /\ clock = 1
    /\ run = 1
    /\ pc = "enrich"
    /\ cacheFile = NoCacheFile
    /\ failedFile = NoFailedFile
    /\ today_key = 1
    /\ posted_titles = {}
    /\ cache = [date |-> 1, titles |-> <<>>]
    /\ FreshLocals
    /\ budget = 0
    /\ hist = <<>>
    /\ lost = {}
    /\ web = <<>>
    /\ error_tracker = NoReport
    /\ \E t \in Titles : item = [title |-> t, url |-> "https://example.com/a"]
    /\ enriched = NoEnriched
    /\ quoted = <<>>

NextEnrich == Enrich

SpecEnrich == InitEnrich /\ [][NextEnrich]_vars

---------------------------------------------------------------------------
(* Claims about discover(). *)

(* An entry taken from BACKUP_HEADLINES carries a "company" key; a fetched *)
(* candidate has only "title" and "url".                                   *)
IsBackup(itm) == "company" \in DOMAIN itm

Returned == pc = "discovered"

(* C1: the list discover() returns holds no two entries with the same      *)
(* title, none with the same URL and none with the same fingerprint, also  *)
(* when the backup fallback ran.                                           *)
C1_ReturnedUnique ==
    Returned =>
        \A i, j \in 1..Len(raw_items) :
            i # j =>
                /\ raw_items[i].title # raw_items[j].title
                /\ raw_items[i].url # raw_items[j].url
                /\ Fingerprint(raw_items[i]) # Fingerprint(raw_items[j])

(* The positions of the pool that carry the title and the URL of c. *)
Carriers(c) ==
    {i \in 1..Len(pool) : pool[i].title = c.title /\ pool[i].url = c.url}

Least(S) == CHOOSE i \in S : \A j \in S : i <= j

(* C2: the deduplicated list is a subsequence of the merged pool: every    *)
(* survivor is the first pool entry carrying its title and URL, these      *)
(* first occurrences are in increasing pool order, and the returned list   *)
(* starts with the survivors in that order.                                *)
C2_Subsequence ==
    pc \in {"fallback", "discovered"} =>
        /\ \A k \in 1..Len(deduped) :
              /\ Carriers(deduped[k]) # {}
              /\ deduped[k] = pool[Least(Carriers(deduped[k]))]
        /\ \A k \in 1..(Len(deduped) - 1) :
              Least(Carriers(deduped[k])) < Least(Carriers(deduped[k + 1]))
        /\ Returned =>
              Take(raw_items, Len(deduped)) = Take(deduped, MaxPoolSize)

(* A pool whose second entry is dropped for its title and whose third      *)
(* entry survives although the dropped entry carried its URL.              *)
C2_Witness ==
    /\ Returned
    /\ pool = <<K1, K3, K7>>
    /\ deduped = <<K1, K7>>

(* C3: backup headlines are appended exactly when fewer than 5 candidates  *)
(* survive; they are then the entries of BACKUP_HEADLINES whose            *)
(* fingerprint no survivor has, in list order, up to a total of 10; with   *)
(* 5 or more survivors the returned list holds no backup entry.            *)
C3_BackupFallback ==
    Returned =>
        LET n == Len(deduped)
            seen == {Fingerprint(deduped[i]) : i \in 1..n}
            Fresh(b) == Fingerprint(b) \notin seen
            eligible == SelectSeq(BACKUP_HEADLINES, Fresh)
        IN  /\ (n < MinDeduped) <=> (\E i \in 1..Len(raw_items) : IsBackup(raw_items[i]))
            /\ n < MinDeduped =>
                  raw_items = deduped \o Take(eligible, BackupTarget - n)
            /\ n >= MinDeduped => raw_items = Take(deduped, MaxPoolSize)

(* Four survivors, one of them with the fingerprint of a backup headline:  *)
(* that headline is skipped and the appending stops at 10 entries before   *)
(* the backup list is exhausted.                                           *)
C3_Witness ==
    /\ Returned
    /\ Len(deduped) = 4
    /\ \E k \in 1..4 : deduped[k] = K6
    /\ Len(raw_items) = BackupTarget
    /\ ~ \E i \in 1..Len(raw_items) : raw_items[i] = BACKUP_HEADLINES[8]

---------------------------------------------------------------------------
(* Claims about main() and the daily cache. *)

SelectedTitles == {selected[i].title : i \in 1..Len(selected)}

HandedTitles == {messages[i].card : i \in 1..Len(messages)}

(* C4: a title that an earlier invocation of the same UTC date wrote to    *)
(* the cache is neither selected nor handed to the delivery engine by a    *)
(* later invocation of that date.                                          *)
C4_NoReselectionSameDay ==
    \A k \in 1..Len(hist) :
        (hist[k].run < run /\ hist[k].date = today_key) =>
            /\ SelectedTitles \cap hist[k].titles = {}
            /\ HandedTitles \cap hist[k].titles = {}

(* A second invocation on the date of the first: some discovered items are *)
(* filtered out as posted and the others are selected and formatted.       *)
C4_Witness ==
    /\ run = 2
    /\ pc = "save"
    /\ Len(hist) = 1
    /\ hist[1].date = today_key
    /\ Len(messages) > 0
    /\ Len(new_items) < Len(raw_items)

(* The invocation started without a cache file of today's date. *)
StaleStart == ~cacheFile.exists \/ cacheFile.date # today_key

(* C5: an invocation that starts with no cache file, or with one of        *)
(* another date, has no posted titles, keeps every discovered item as new, *)
(* and writes a cache with today's date and exactly the titles it          *)
(* selected.                                                               *)
C5_NewDateResets ==
    [][ /\ (pc \in {"fetch", "dedup", "fallback", "discovered", "build", "save"}
            /\ StaleStart)
           => /\ posted_titles = {}
              /\ cache.date = today_key
              /\ pc \in {"build", "save"} => new_items = raw_items
        /\ (pc = "save" /\ pc' = "deliver" /\ StaleStart)
           => cacheFile' = [exists |-> TRUE, date |-> today_key,
                            titles |-> TitlesOf(selected)]
      ]_vars

(* A second invocation on a later date: it selects titles the first one    *)
(* had recorded and its cache holds only its own selection.                *)
C5_Witness ==
    /\ run = 2
    /\ pc = "deliver"
    /\ Len(hist) = 2
    /\ hist[1].date # today_key
    /\ SelectedTitles \cap hist[1].titles # {}
    /\ cacheFile = [exists |-> TRUE, date |-> today_key,
                    titles |-> TitlesOf(selected)]

InDelivery == pc \in {"deliver", "next", "send", "sleep", "exit", "done", "crashed"}

(* From the entry of DeliveryEngine.run on, cache.json carries today's     *)
(* date and every selected title, and no title whose message ended FAILED  *)
(* in an earlier invocation of the date is selected.                       *)
C10_State ==
    /\ InDelivery =>
          /\ cacheFile.exists
          /\ cacheFile.date = today_key
          /\ SelectedTitles \subseteq Range(cacheFile.titles)
    /\ \A l \in lost :
          (l.run < run /\ l.date = today_key) => l.title \notin SelectedTitles

(* C10: the cache with every selected title is written before the first   *)
(* send attempt; no later step of the invocation (send failure, retry      *)
(* exhaustion, interrupt) changes cache.json; hence a title whose delivery *)
(* failed is not selected again on the same date.                          *)
C10_CacheBeforeDelivery ==
    [][ /\ C10_State
        /\ C10_State'
        /\ InDelivery => cacheFile' = cacheFile
      ]_vars

(* A second invocation on the same date discovers a title whose delivery   *)
(* failed in the first and does not select it.                             *)
C10_Witness ==
    /\ run = 2
    /\ pc = "build"
    /\ \E l \in lost :
          /\ l.run = 1
          /\ l.date = today_key
          /\ \E i \in 1..Len(raw_items) : raw_items[i].title = l.title
          /\ l.title \notin SelectedTitles
    /\ Len(selected) > 0

---------------------------------------------------------------------------
(* Claims about DeliveryEngine. *)

(* The messages of the batch whose status is FAILED, in batch order. *)
FailedBodies ==
    LET F[k \in 0..Len(messages)] ==
            IF k = 0 THEN <<>>
            ELSE IF status[k] = "FAILED" THEN Append(F[k - 1], messages[k])
                 ELSE F[k - 1]
    IN  F[Len(messages)]

(* C6: a message whose first two attempts fail and whose third succeeds is *)
(* SENT, is not appended to failed, and waited longer before the third     *)
(* attempt than before the second, whatever the two jitters.               *)
C6_ThirdAttemptSucceeds ==
    (pc = "sleep" /\ tries[idx] = 3 /\ attempts = 2) =>
        /\ status[idx] = "SENT"
        /\ failed = FailedBodies
        /\ Len(waits) = 2
        /\ waits[2] > waits[1]

(* The largest jitter on the first wait and the smallest on the second. *)
C6_Witness ==
    /\ pc = "sleep"
    /\ tries[idx] = 3
    /\ status[idx] = "SENT"
    /\ waits = <<BaseDelay + MaxJitter, 2 * BaseDelay>>

(* C7: when run() has finished, failed_posts.json holds what it read       *)
(* followed by the messages that ended FAILED, each once and in batch      *)
(* order, and nothing for a message that was SENT; with no FAILED message  *)
(* the file is not written.                                                *)
C7_FailedLoggedOnce ==
    pc \in {"exit", "done"} =>
        /\ failed = FailedBodies
        /\ IF FailedBodies = <<>>
           THEN flushes = 0
           ELSE /\ flushes = 1
                /\ failedFile.kind = "list"
                /\ failedFile.entries = existing \o FailedBodies

C7_Witness ==
    /\ pc = "done"
    /\ Len(messages) = 3
    /\ status = <<"FAILED", "SENT", "FAILED">>
    /\ existing = <<M0, M1>>
    /\ Len(failedFile.entries) = 4

(* C8: every message before the current one was attempted and is SENT or   *)
(* FAILED, a FAILED message is followed by the inter-post delay and the    *)
(* next message, and run() reaches its end only with every message         *)
(* attempted.                                                              *)
C8_FailureDoesNotAbort ==
    /\ pc \in {"next", "send", "sleep"} =>
          \A k \in 1..Len(messages) :
              k < idx => tries[k] >= 1 /\ status[k] \in {"SENT", "FAILED"}
    /\ pc \in {"exit", "done", "crashed"} =>
          \A k \in 1..Len(messages) :
              tries[k] >= 1 /\ status[k] \in {"SENT", "FAILED"}
    /\ (pc = "sleep" /\ status[idx] = "FAILED" /\ idx < Len(messages)) =>
          tries[idx + 1] = 0 /\ ENABLED PostDelay
    /\ (pc = "next" /\ idx <= Len(messages)) => ENABLED NextMessage

C8_Witness ==
    /\ pc = "done"
    /\ Len(messages) = 3
    /\ status = <<"FAILED", "FAILED", "SENT">>
    /\ tries = <<3, 3, 1>>

(* s is a prefix of t. *)
IsPrefix(s, t) == Len(s) <= Len(t) /\ SubSeq(t, 1, Len(s)) = s

(* C9: failed_posts.json is append-only: whatever it held before a step of *)
(* run(), it holds afterwards, in the same order and at the same places.   *)
C9_AppendOnly ==
    [][IsPrefix(failedFile.entries, failedFile'.entries)]_vars

(* A status a message never leaves. *)
Terminal == {"SENT", "FAILED"}

(* C12: run() sends one message at a time and in batch order: at most one  *)
(* message is SENDING; a message leaves PENDING only at the loop head, as  *)
(* the current message, with no send attempt made for it yet and every     *)
(* earlier message SENT or FAILED; send_message is called only for the     *)
(* message that is SENDING; and the loop head is reached for a later       *)
(* message only from the inter-post sleep.                                 *)
C12_OneAtATime ==
    [][ /\ Cardinality({k \in DOMAIN status' : status'[k] = "SENDING"}) <= 1
        /\ \A k \in DOMAIN status \cap DOMAIN status' :
              /\ (status[k] = "PENDING" /\ status'[k] # "PENDING") =>
                    /\ status'[k] = "SENDING"
                    /\ pc = "next" /\ idx = k /\ tries[k] = 0
                    /\ \A j \in 1..(k - 1) : status[j] \in Terminal
              /\ tries'[k] # tries[k] => status[k] = "SENDING"
        /\ (pc' = "next" /\ pc # "next" /\ idx' > 1) =>
              pc = "sleep" /\ idx' = idx + 1 ]_vars

(* The third message still PENDING while the second is being sent. *)
C12_Witness ==
    /\ pc = "send"
    /\ Len(messages) = 3
    /\ idx = 2
    /\ status = <<"FAILED", "SENDING", "PENDING">>
    /\ tries = <<3, 1, 0>>

(* C15: send_post() calls send_message at most 3 times for a message and   *)
(* at least once before the message is SENT or FAILED, and never again     *)
(* for a message that is SENT or FAILED, whose status stays.               *)
C15_AttemptBounds ==
    [][ /\ \A k \in DOMAIN tries' :
              /\ tries'[k] <= MaxAttempts
              /\ status'[k] \in Terminal => tries'[k] >= 1
        /\ \A k \in DOMAIN tries \cap DOMAIN tries' :
              status[k] \in Terminal =>
                  tries'[k] = tries[k] /\ status'[k] = status[k] ]_vars

(* A run that is over, with one call, two calls and three calls made. *)
C15_Witness ==
    /\ pc = "done"
    /\ Len(messages) = 3
    /\ tries = <<1, 2, 3>>
    /\ status = <<"SENT", "SENT", "FAILED">>

(* C16: the k-th backoff sleep of a message is 5 * 2^(k-1) seconds plus a  *)
(* jitter of 0 to 3 seconds, and sleeps are taken only between attempts:   *)
(* never more than two for a message, so none after the third failure.     *)
C16_BackoffBetweenAttempts ==
    /\ \A k \in 1..Len(waits) :
          (waits[k] - BaseDelay * 2^(k - 1)) \in 0..MaxJitter
    /\ Len(waits) <= MaxAttempts - 1

(* Every message is SENT or FAILED. *)
AllTerminal ==
    /\ DOMAIN status = 1..Len(messages)
    /\ \A k \in 1..Len(messages) : status[k] \in Terminal

(* run() has returned, or has raised from existing.extend after the loop. *)
RunOver == pc \in {"done", "crashed"}

(* C18: whatever the batch and whichever send_message calls raise, run()   *)
(* comes to its end, and every message is then SENT or FAILED.             *)
C18_RunTerminates == <>(RunOver /\ AllTerminal)

(* A run whose every send_message call raised, at its end. *)
C18_Witness ==
    /\ pc = "done"
    /\ Len(messages) = 3
    /\ status = <<"FAILED", "FAILED", "FAILED">>
    /\ budget = 0


---------------------------------------------------------------------------
(* Claims about one invocation of main(). *)

(* No two positions of s hold the same value. *)
Distinct(s) == \A i, j \in 1..Len(s) : i # j => s[i] # s[j]

(* The entries of cache["titles"] that the loop over selected appended.    *)
Appended ==
    SubSeq(cache.titles, Len(cache.titles) - Len(selected) + 1,
           Len(cache.titles))

(* C20: within one invocation the selected items have pairwise distinct    *)
(* titles, no title is handed to the delivery engine twice, and no title   *)
(* is appended to cache["titles"] twice.                                   *)
C20_DistinctTitlesInRun ==
    /\ Distinct(TitlesOf(selected))
    /\ Distinct([i \in 1..Len(messages) |-> messages[i].card])
    /\ pc \in {"save", "deliver"} => Distinct(Appended)

---------------------------------------------------------------------------
(* Claims about the size of what discover() returns. *)

(* C17: discover() returns at most 50 entries, with or without backup      *)
(* headlines appended, and when more than 50 candidates survive the        *)
(* deduplication it returns the first 50 survivors, in their order.        *)
C17_AtMostFifty ==
    Returned =>
        /\ Len(raw_items) <= MaxPoolSize
        /\ Len(deduped) > MaxPoolSize =>
              raw_items = SubSeq(deduped, 1, MaxPoolSize)

(* A pool of more than 50 stories and two repeats: the repeats are         *)
(* dropped, the survivors past the 50th are cut.                           *)
C17_Witness ==
    /\ Returned
    /\ Len(pool) > Len(deduped)
    /\ Len(deduped) > MaxPoolSize + 1
    /\ Len(raw_items) = MaxPoolSize
    /\ raw_items[MaxPoolSize] = Story(MaxPoolSize)

---------------------------------------------------------------------------
(* Claims about the daily quota. *)

(* C13: over the invocations of one UTC date at most POSTS_PER_DAY titles  *)
(* are recorded in the daily cache, in memory and in cache.json, and so    *)
(* handed to the delivery engine.                                          *)
C13_DailyQuota ==
    /\ Len(cache.titles) <= POSTS_PER_DAY
    /\ Len(cacheFile.titles) <= POSTS_PER_DAY
    /\ \A k \in 1..Len(hist) : Cardinality(hist[k].titles) <= POSTS_PER_DAY

---------------------------------------------------------------------------
(* Claims about the fetchers of discover(). *)

(* The key under which the errors of a source are logged. *)
ErrorKey(s) ==
    CASE s = "site" -> "site"
      [] s = "generic" -> "Generic generic"
      [] s = "google_news" -> "Google News (google_news)"
      [] s = "hackernews" -> "Hacker News"
      [] s = "rss" -> "RSS rss"
      [] s = "reddit" -> "Reddit r/reddit"

(* The entries of the pool that source s listed, in pool order. *)
FromSource(s) ==
    LET Listed(c) == \E k \in 1..EntriesPerSource : c = Entry(s, k)
    IN  SelectSeq(pool, Listed)

(* C11: whichever sources fail, discover() goes on to the deduplication    *)
(* and returns; a source that failed has an error logged under its key and *)
(* no entry in the pool, a source that did not fail has all its entries in *)
(* the pool.                                                               *)
C11_FailuresIsolated ==
    /\ pc \in {"dedup", "fallback", "discovered"} =>
          \A s \in Sources :
              IF web[s] = "none"
              THEN FromSource(s) = Entries(s)
              ELSE /\ ErrorKey(s) \in DOMAIN error_tracker.errors
                   /\ FromSource(s) = <<>>
    /\ pc = "sites" => ENABLED FetchSite
    /\ pc = "generic" => ENABLED FetchGeneric
    /\ pc = "google_news" => ENABLED FetchGoogleNews
    /\ pc = "hackernews" => ENABLED FetchHackerNews
    /\ pc = "rss" => ENABLED FetchRss
    /\ pc = "reddit" => ENABLED FetchReddit

---------------------------------------------------------------------------
(* Claims about SignalEngine.enrich. *)

(* The title of the example: Meta layoffs hit 2000 engineers *)
MetaExample ==
    <<"M", "e", "t", "a", " ", "l", "a", "y", "o", "f", "f", "s", " ", "h", "i", "t", " ",
       "2", "0", "0", "0", " ", "e", "n", "g", "i", "n", "e", "e", "r", "s">>

(* C14: enrich() gives the tag of the first keyword group found in the     *)
(* lowered title, in the order layoff, growth, AI/tool, and the strategy   *)
(* tag when none is found; the title "Meta layoffs hit 2000 engineers"     *)
(* gets company "Meta", country "USA" and the layoff tag.                  *)
C14_TagOrder ==
    pc = "enriched" =>
        LET tl == str_lower(item.title)
            layoff == AnyIn(LayoffWords, tl)
            growth == AnyIn(GrowthWords, tl)
            tool == AnyIn(ToolWords, tl)
        IN  /\ layoff => enriched.tag = "Layoff"
            /\ (~layoff /\ growth) => enriched.tag = "Growth"
            /\ (~layoff /\ ~growth /\ tool) => enriched.tag = "New Tool"
            /\ (~layoff /\ ~growth /\ ~tool) => enriched.tag = "Strategy"
            /\ item.title = MetaExample =>
                  /\ enriched.company = <<"M", "e", "t", "a">>
                  /\ enriched.country = "USA"
                  /\ enriched.tag = "Layoff"

(* A title with a layoff, a growth and an AI keyword, tagged layoff. *)
C14_Witness ==
    /\ pc = "enriched"
    /\ AnyIn(LayoffWords, str_lower(item.title))
    /\ AnyIn(GrowthWords, str_lower(item.title))
    /\ AnyIn(ToolWords, str_lower(item.title))
    /\ enriched.tag = "Layoff"

(* The whitelist names that are, letter case apart, keys of ticker_cache:  *)
(* openai, google, microsoft, meta, nvidia, infosys, tcs.                  *)
TickerNames ==
    {k \in KNOWN_COMPANIES : \E r \in ticker_cache : str_lower(r.key) = k}

(* The ticker_cache entry of a whitelist name. *)
EntryOf(k) == CHOOSE r \in ticker_cache : str_lower(r.key) = k

(* C19: when the title names a company of TickerNames and no other         *)
(* whitelist name as long or longer, so that the whitelist loop stops at   *)
(* that company, enrich() asks the quote service for the ticker of that    *)
(* company, and the stock is "N/A" only if the call raised or returned no  *)
(* price.                                                                  *)
C19_TickerFound ==
    pc = "enriched" =>
        \A k \in TickerNames :
            (/\ In(k, str_lower(item.title))
             /\ \A j \in Matches(str_lower(item.title)) :
                   j # k => Len(j) < Len(k)) =>
                /\ Len(quoted) = 1
                /\ quoted[1].ticker = EntryOf(k).ticker
                /\ enriched.stock = "N/A" =>
                      ~quoted[1].answer.ok \/ quoted[1].answer.price = 0

---------------------------------------------------------------------------
(* Claims about the daily cache across invocations. *)

(* C21: the titles of cache.json only grow over the invocations of one UTC *)
(* date: a write of cache.json by an invocation that loaded a cache of     *)
(* today's date keeps every title the file held, and of two writes made on *)
(* the same date the later holds every title of the earlier.               *)
C21_CacheGrows ==
    [][ /\ (cacheFile' # cacheFile /\ cacheFile.exists
                /\ cacheFile.date = today_key) =>
              /\ cacheFile'.date = cacheFile.date
              /\ Range(cacheFile.titles) \subseteq Range(cacheFile'.titles)
        /\ \A k, l \in 1..Len(hist') :
              (k < l /\ hist'[k].date = hist'[l].date) =>
                  hist'[k].titles \subseteq hist'[l].titles ]_vars

(* Two writes on one date, the second with titles the first had not. *)
C21_Witness ==
    /\ Len(hist) = 2
    /\ hist[1].date = hist[2].date
    /\ hist[1].titles # {}
    /\ hist[1].titles # hist[2].titles
    /\ cacheFile.date = hist[2].date
    /\ Range(cacheFile.titles) = hist[2].titles

---------------------------------------------------------------------------
(* Claims about the writes of failed_posts.json. *)

(* C22: run() writes failed_posts.json at most once, and only after the    *)
(* loop, when every message is SENT or FAILED and at least one is FAILED;  *)
(* with no FAILED message the file stays as it was; a KeyboardInterrupt    *)
(* before that write leaves the file as it was, whatever had FAILED.       *)
C22_FailureLogWrittenOnce ==
    [][ /\ flushes' <= 1
        /\ (failedFile' # failedFile \/ flushes' # flushes) =>
              /\ flushes = 0 /\ flushes' = 1
              /\ pc = "next" /\ idx > Len(messages)
              /\ AllTerminal
              /\ FailedBodies # <<>>
        /\ (pc' = "interrupted" /\ pc # "exit") =>
              flushes' = 0 /\ failedFile' = failedFile ]_vars

(* Interrupted while the third message waits, the first having FAILED:     *)
(* nothing was written.                                                    *)
C22_Witness ==
    /\ pc = "interrupted"
    /\ lost # {}
    /\ flushes = 0
    /\ failedFile = NoFailedFile

=============================================================================
